---- MODULE Spec2Model ----
(***************************************************************************)
(* A model of the Unreal .pak reader: the version prober and footer parser *)
(* (pak_reader.rs), the index and entry-record decoders, the entry data    *)
(* materializer, the custom string decoder (cursor_ext.rs) and the archive *)
(* handle (pak_file.rs).                                                   *)
(*                                                                         *)
(* Bytes are naturals 0..255 and a byte buffer is a sequence of them; an   *)
(* offset p (0-based, as in Rust) names element p+1 of the sequence.       *)
(* Characters are the code points 0..255 that `u8 as char` produces, so a  *)
(* String is a sequence of such code points.                               *)
(*                                                                         *)
(* 64-bit fields are held by a representative of their value modulo 2^64   *)
(* in (-2^31, 2^31): a u64 field whose representative r is negative has    *)
(* the value 2^64 + r, an i64 field the value r.  Only fields whose upper  *)
(* four bytes are a sign extension of the lower four are in this range;    *)
(* the archives below use no others.                                       *)
(***************************************************************************)
EXTENDS Integers, Sequences, FiniteSets, TLC

VARIABLES
  buffer,           \* PakReader.reader: the Vec<u8> the cursor owns
  position,         \* PakReader.reader: the cursor's position
  overflow_checks,  \* the build: TRUE when arithmetic overflow panics
  pc,               \* the call PakFile::from_memory makes next
  sizeIdx,          \* get_pak_info: index of the next candidate size
  pak_info,         \* what get_pak_info returned
  index_buf,        \* what read_pak_index returned to get_pak_entries
  opened,           \* what PakFile::from_memory returned
  mount_point,      \* PakFile.mount_point
  file_indexes,     \* PakFile.file_indexes: name -> PakEntry
  fetched,          \* the last PakFile::get_entry_data call and its result
  fstr              \* the last CursorExt::read_fstring call and its result

vars == <<buffer, position, overflow_checks, pc, sizeIdx, pak_info, index_buf,
          opened, mount_point, file_indexes, fetched, fstr>>

---------------------------------------------------------------------------
(* Results.  Every Result is a record with the same fields, so that any    *)
(* two can be compared.                                                    *)

Ok(v)      == [tag |-> "Ok", err |-> "", val |-> <<v>>]
Err(e)     == [tag |-> "Err", err |-> e, val |-> <<>>]
Panic(why) == [tag |-> "Panic", err |-> why, val |-> <<>>]
Pending    == [tag |-> "Pending", err |-> "", val |-> <<>>]
IsOk(r)    == r.tag = "Ok"
Val(r)     == r.val[1]

---------------------------------------------------------------------------
(* Little-endian integers.                                                 *)

Min(a, b) == IF a <= b THEN a ELSE b
Max(a, b) == IF a >= b THEN a ELSE b

\* the three low bytes of a 32-bit field at offset p
Low24(s, p) == s[p + 1] + 256 * s[p + 2] + 65536 * s[p + 3]

\* ReadBytesExt::read_i32::<LittleEndian>: two's complement
I32At(s, p) ==
  Low24(s, p) + 16777216 * (IF s[p + 4] >= 128 THEN s[p + 4] - 256 ELSE s[p + 4])

\* ReadBytesExt::read_u32::<LittleEndian>: the representative of the field
\* modulo 2^32 (a negative r stands for 2^32 + r)
U32At(s, p) == I32At(s, p)

\* ReadBytesExt::read_u16::<LittleEndian>
U16At(s, p) == s[p + 1] + 256 * s[p + 2]

\* read_i64 / read_u64: the representative of the field modulo 2^64
W64At(s, p) ==
  CASE (\A i \in 5..8 : s[p + i] = 0) /\ s[p + 4] < 128 -> I32At(s, p)
    [] (\A i \in 5..8 : s[p + i] = 255) /\ s[p + 4] >= 128 -> I32At(s, p)

MinI32 == -2147483647 - 1

\* a u64 representative that stands for a value of 2^64 + r, above any length
Huge(r) == r < 0

---------------------------------------------------------------------------
(* Cursor<Vec<u8>>: read_exact as tokio's AsyncRead for Cursor performs it *)
(* (a short read consumes what is left, then fails with UnexpectedEof).    *)

Slice(s, p, n) == [i \in 1..n |-> s[p + i]]

Avail(s, p) == IF Huge(p) \/ p > Len(s) THEN 0 ELSE Len(s) - p

\* CursorExt::read_buffer(size) on a cursor over s at position p
read_buffer(s, p, size) ==
  IF Huge(size) THEN [res |-> Panic("capacity overflow"), pos |-> p]
  ELSE IF size <= Avail(s, p)
       THEN [res |-> Ok(Slice(s, p, size)), pos |-> p + size]
       ELSE [res |-> Err("ReadError"),
             pos |-> IF Huge(p) \/ p > Len(s) THEN p ELSE Len(s)]

\* CursorExt::seek_index: a failed seek is ignored and leaves the position
seek_index(s, p, index) ==
  IF index < 0
  THEN (IF Len(s) + index < 0 THEN p ELSE Len(s) + index)
  ELSE index

---------------------------------------------------------------------------
(* CursorExt::read_fstring on a cursor over s at position p.               *)

DollarSign == 36

RECURSIVE WideChars(_, _, _)
WideChars(s, p, n) ==
  IF n = 0 THEN <<>>
  ELSE LET raw_char == IF U16At(s, p) >= 256 THEN DollarSign ELSE U16At(s, p)
       IN  <<raw_char % 256>> \o WideChars(s, p + 2, n - 1)

\* the length the wide branch loops over: len = -len
NegateLen(len, checks) ==
  IF len = MinI32
  THEN (IF checks THEN Panic("attempt to negate with overflow") ELSE Ok(MinI32))
  ELSE Ok(-len)

read_fstring(s, p, checks) ==
  IF Avail(s, p) < 4 THEN [res |-> Err("ReadError"), pos |-> Max(p, Len(s))]
  ELSE
    LET len == I32At(s, p)
        q   == p + 4
    IN  IF len > 0
        THEN IF Avail(s, q) < len
             THEN [res |-> Err("ReadError"), pos |-> Len(s)]
             ELSE [res |-> Ok(Slice(s, q, len - 1)), pos |-> q + len]
        ELSE LET n == NegateLen(len, checks)
             IN  IF ~IsOk(n) THEN [res |-> n, pos |-> q]
                 ELSE IF Val(n) <= 0 THEN [res |-> Ok(<<>>), pos |-> q]
                 ELSE IF Avail(s, q) < 2 * Val(n)
                      THEN [res |-> Err("ReadError"), pos |-> Len(s)]
                      ELSE [res |-> Ok(WideChars(s, q, Val(n))),
                            pos |-> q + 2 * Val(n)]

---------------------------------------------------------------------------
(* pak/mod.rs: the candidate trailer sizes and the version thresholds.     *)

Size   == 4 * 2 + 8 * 2 + 20 + 1 + 16
SizeV8 == Size + (32 * 4)
SizeV8A == SizeV8 + 32
SizeV9 == SizeV8A + 1

get_sizes_Descending == <<SizeV9, SizeV8A, SizeV8, Size>>

get_sizes == <<Size, SizeV8, SizeV8A, SizeV9>>

NoTimestamps == 2
CompressionEncryption == 3
IndexEncryption == 4
EncryptionKeyGuid == 7
FNameBasedCompressionMethod == 8
FrozenIndex == 9

\* 0x5A6F12E1
PAK_MAGIC == 1517228769

Zlib_name  == <<90, 108, 105, 98>>
Gzip_name  == <<71, 122, 105, 112>>
Oodle_name == <<79, 111, 100, 108, 101>>

---------------------------------------------------------------------------
(* PakReader::read_pak_info(version_size) on the shared cursor over s at   *)
(* position p: [res, pos].                                                 *)

\* the compression-method names: the loop over the bytes at offsets p..end-1
\* pushes each non-empty run of non-NUL bytes when it meets the NUL that ends
\* it; a run the bytes end in is never pushed
RECURSIVE MethodNames(_, _, _)
MethodNames(s, p, end) ==
  LET starts == { i \in p..(end - 1) : s[i + 1] # 0 }
  IN  IF starts = {} THEN <<>>
      ELSE LET first == CHOOSE i \in starts : \A j \in starts : i <= j
               nuls  == { i \in first..(end - 1) : s[i + 1] = 0 }
           IN  IF nuls = {} THEN <<>>
               ELSE LET nul == CHOOSE i \in nuls : \A j \in nuls : i <= j
                    IN  <<Slice(s, first, nul - first)>>
                        \o MethodNames(s, nul + 1, end)

\* the trailer fields parsed from the version_size-byte header
ParseHeader(header, version_size) ==
  LET encryption_index_guid == Slice(header, 0, 16)
      is_encrypted == header[17] > 0
      magic        == U32At(header, 17)
  IN  IF magic # PAK_MAGIC THEN Err("MagicMismatch")
      ELSE
        LET version      == I32At(header, 21)
            index_offset == W64At(header, 25)
            index_size   == W64At(header, 33)
            index_hash   == Slice(header, 41, 20)
            sub_version  == IF version_size = SizeV8A /\ version = 8
                            THEN 1 ELSE 0
            frozen_read  == version >= FrozenIndex
            names_at     == IF frozen_read THEN Size + 1 ELSE Size
            gated        == IF version < IndexEncryption THEN FALSE
                            ELSE is_encrypted
        IN  IF frozen_read /\ version_size < Size + 1 THEN Err("ReadError")
            ELSE IF gated THEN Err("EncryptionNotSupported")
            ELSE Ok([encryption_index_guid |->
                       IF version < EncryptionKeyGuid THEN <<>>
                       ELSE encryption_index_guid,
                     is_encrypted |-> gated,
                     magic        |-> magic,
                     version      |-> version,
                     sub_version  |-> sub_version,
                     index_offset |-> index_offset,
                     index_size   |-> index_size,
                     index_hash   |-> index_hash,
                     index_frozen |-> IF frozen_read THEN header[Size + 1]
                                      ELSE 0,
                     compression_methods |->
                       IF version < FNameBasedCompressionMethod
                       THEN <<Zlib_name, Gzip_name, Oodle_name>>
                       ELSE MethodNames(header, names_at, version_size)])

read_pak_info(s, p, version_size) ==
  IF Len(s) - version_size < 0
  THEN [res |-> Err("ReadError"), pos |-> p]
  ELSE [res |-> ParseHeader(Slice(s, Len(s) - version_size, version_size),
                            version_size),
        pos |-> 0]

---------------------------------------------------------------------------
(* PakReader::read_pak_index(info) on the shared cursor: [res, pos].       *)

\* the position read_pak_index sets once the index has been read
RestoredPosition_Kept(before, after) == after

RestoredPosition(before, after) == before

read_pak_index(s, p, inf) ==
  LET r == read_buffer(s, seek_index(s, p, inf.index_offset), inf.index_size)
  IN  IF IsOk(r.res)
      THEN [res |-> r.res, pos |-> RestoredPosition(p, r.pos)]
      ELSE r

---------------------------------------------------------------------------
(* PakReader::read_pak_entry on the index cursor over s at position p,     *)
(* for the archive's PakInfo inf: [res, pos].                              *)

Fits(s, p, n) == p + n <= Len(s)

\* the legacy flag word of versions below 8, by first matching bit
LegacyIndex(compression_flags) ==
  IF compression_flags = 0 THEN 0
  ELSE IF compression_flags % 2 = 1 THEN 1
  ELSE IF (compression_flags \div 2) % 2 = 1 THEN 2
  ELSE IF (compression_flags \div 4) % 2 = 1 THEN 3
  ELSE 0

RECURSIVE Blocks(_, _, _)
Blocks(s, p, n) ==
  IF n = 0 THEN <<>>
  ELSE <<[compression_start |-> W64At(s, p),
          compression_end   |-> W64At(s, p + 8)]>> \o Blocks(s, p + 16, n - 1)

read_pak_entry(s, p, inf) ==
  LET named   == inf.version >= FNameBasedCompressionMethod
      ci_len  == IF named /\ inf.sub_version = 1 THEN 1 ELSE 4
      ts_len  == IF inf.version < NoTimestamps THEN 8 ELSE 0
      ts_at   == p + 24 + ci_len
      hash_at == ts_at + ts_len
      q       == hash_at + 20
  IN  IF ~Fits(s, p, q - p) THEN [res |-> Err("ReadError"), pos |-> Len(s)]
      ELSE
        LET compression_index ==
              IF named
              THEN (IF inf.sub_version = 1 THEN s[p + 25] ELSE U32At(s, p + 24))
              ELSE LegacyIndex(U32At(s, p + 24))
            has_blocks == inf.version >= CompressionEncryption
                          /\ compression_index # 0
            count   == IF has_blocks /\ Fits(s, q, 4) THEN I32At(s, q) ELSE 0
            n       == IF count > 0 THEN count ELSE 0
            tail_at == IF has_blocks THEN q + 4 + 16 * n ELSE q
            end_at  == IF inf.version >= CompressionEncryption
                       THEN tail_at + 5 ELSE q
        IN  IF ~Fits(s, p, end_at - p)
            THEN [res |-> Err("ReadError"), pos |-> Len(s)]
            ELSE [res |-> Ok(
                    [start  |-> p,
                     offset |-> W64At(s, p),
                     size   |-> W64At(s, p + 8),
                     flags  |-> IF inf.version >= CompressionEncryption
                                THEN s[tail_at + 1] ELSE 0,
                     timestamp |-> IF ts_len = 8 THEN W64At(s, ts_at) ELSE 0,
                     hash   |-> Slice(s, hash_at, 20),
                     uncompressed_size |-> W64At(s, p + 16),
                     compression_index |-> compression_index,
                     compression_block_size |->
                       IF inf.version >= CompressionEncryption
                       THEN U32At(s, tail_at + 1) ELSE 0,
                     compression_blocks |->
                       IF has_blocks THEN Blocks(s, q + 4, n) ELSE <<>>,
                     header_size |-> end_at - p]),
                  pos |-> end_at]

---------------------------------------------------------------------------
(* PakReader::get_pak_entries after read_pak_index: the decoding of the    *)
(* index blob.                                                             *)

StartsWith(s, i, pat) ==
  /\ i + Len(pat) - 1 <= Len(s)
  /\ \A k \in 1..Len(pat) : s[i + k - 1] = pat[k]

\* str::replace(pat, ""): the matches are found left to right, each search
\* resuming after the previous match, in the original string
RECURSIVE StripFrom(_, _, _)
StripFrom(s, i, pat) ==
  IF i > Len(s) THEN <<>>
  ELSE IF StartsWith(s, i, pat) THEN StripFrom(s, i + Len(pat), pat)
  ELSE <<s[i]>> \o StripFrom(s, i + 1, pat)

\* "../../../"
ParentEscape == <<46, 46, 47, 46, 46, 47, 46, 46, 47>>

Sanitize(mount) == StripFrom(mount, 1, ParentEscape)

Insert(map, k, v) ==
  [x \in DOMAIN map \cup {k} |-> IF x = k THEN v ELSE map[x]]

\* the loop `for _ in 0..entry_count`, left entries to go
RECURSIVE ReadEntries(_, _, _, _, _, _)
ReadEntries(s, p, left, inf, checks, entries) ==
  IF left <= 0 THEN Ok(entries)
  ELSE LET file_name == read_fstring(s, p, checks)
       IN  IF ~IsOk(file_name.res) THEN file_name.res
           ELSE LET entry == read_pak_entry(s, file_name.pos, inf)
                IN  IF ~IsOk(entry.res) THEN entry.res
                    ELSE ReadEntries(s, entry.pos, left - 1, inf, checks,
                                     Insert(entries, Val(file_name.res),
                                            Val(entry.res)))

decode_index(index, inf, checks) ==
  LET mount == read_fstring(index, 0, checks)
  IN  IF ~IsOk(mount.res) THEN mount.res
      ELSE IF ~Fits(index, mount.pos, 4) THEN Err("ReadError")
      ELSE LET entries == ReadEntries(index, mount.pos + 4,
                                      I32At(index, mount.pos), inf, checks,
                                      <<>>)
           IN  IF ~IsOk(entries) THEN entries
               ELSE Ok([mount_point |-> Sanitize(Val(mount.res)),
                        entries |-> Val(entries)])

---------------------------------------------------------------------------
(* CursorExt::read_decompress.  The codecs are the `compress` crate's,     *)
(* which this repository only calls; they are stood for by a run-length    *)
(* code with the two properties the reader relies on: decoding is a        *)
(* function of the compressed bytes alone, and it yields either bytes of   *)
(* any length or an error.  A stream is a list of (count, byte) pairs; a   *)
(* zlib stream is a header byte followed by such a list.                   *)

Repeat(b, n) == [i \in 1..n |-> b]

RECURSIVE Inflate(_, _)
Inflate(s, p) ==
  IF p >= Len(s) THEN Ok(<<>>)
  ELSE IF p + 1 = Len(s) THEN Err("ReadError")
  ELSE LET rest == Inflate(s, p + 2)
       IN  IF IsOk(rest) THEN Ok(Repeat(s[p + 2], s[p + 1]) \o Val(rest))
           ELSE rest

ZlibHeader == 120

Decode(compressed, decompress_type) ==
  IF decompress_type = "GZip" THEN Inflate(compressed, 0)
  ELSE IF Len(compressed) > 0 /\ compressed[1] = ZlibHeader
       THEN Inflate(compressed, 1)
       ELSE Err("ReadError")

\* on a cursor over s at position 0: (bytes_read, decompressed)
read_decompress(s, size, decompress_type) ==
  LET b == read_buffer(s, 0, size)
  IN  IF ~IsOk(b.res) THEN b.res ELSE Decode(Val(b.res), decompress_type)

---------------------------------------------------------------------------
(* PakReader::get_pak_entry_data(entry) on the shared cursor over s, left  *)
(* at position p by whatever ran before: [res, pos].                       *)

\* PakCompressionBlock::get_size
get_size(block) == block.compression_end - block.compression_start

\* a u64 sum a + b of a field a and a small b >= 0
AddU64(a, b, checks) ==
  IF Huge(a) /\ a + b >= 0 /\ checks
  THEN Panic("attempt to add with overflow")
  ELSE Ok(a + b)

\* (uncompressed_size - compression_block_size * index).min(block_size),
\* for an uncompressed_size that is not Huge
BlockSize(uncompressed_size, compression_block_size, index, checks) ==
  IF uncompressed_size < compression_block_size * index
  THEN (IF checks THEN Panic("attempt to subtract with overflow")
        ELSE Ok(compression_block_size))
  ELSE Ok(Min(uncompressed_size - compression_block_size * index,
              compression_block_size))

\* Vec::splice(range, bytes) replaces the elements at offsets in range
SpliceRange(offset, bytes_read) == <<offset, bytes_read>>

Splice(vec, range, bytes) ==
  IF range[1] > range[2] THEN Panic("slice index starts after its end")
  ELSE IF range[2] > Len(vec) THEN Panic("range end out of bounds")
  ELSE Ok(SubSeq(vec, 1, range[1]) \o bytes
          \o SubSeq(vec, range[2] + 1, Len(vec)))

\* how many bytes of the archive the loop reads for one block
ChunkSize(uncompressed_block_size, compressed_size) ==
  uncompressed_block_size

\* the loop over entry.compression_blocks, from block i (1-based), with the
\* loop's index, offset and decompressed, and the cursor at p
RECURSIVE DecompressBlocks(_, _, _, _, _, _, _)
DecompressBlocks(s, p, entry, i, offset, decompressed, checks) ==
  IF i > Len(entry.compression_blocks)
  THEN [res |-> Ok(decompressed), pos |-> p]
  ELSE
    LET ubs == BlockSize(entry.uncompressed_size,
                         entry.compression_block_size, i - 1, checks)
    IN  IF ~IsOk(ubs) THEN [res |-> ubs, pos |-> p]
        ELSE
          LET compressed_size == get_size(entry.compression_blocks[i])
              chunk == read_buffer(s, p, ChunkSize(Val(ubs), compressed_size))
          IN  IF ~IsOk(chunk.res) THEN chunk
              ELSE IF entry.compression_index \notin {1, 2}
                   THEN [res |-> Panic("invalid/unsupported compression index"),
                         pos |-> chunk.pos]
              ELSE
                LET d == read_decompress(
                           Val(chunk.res), compressed_size,
                           IF entry.compression_index = 1 THEN "Zlib"
                           ELSE "GZip")
                IN  IF ~IsOk(d) THEN [res |-> d, pos |-> chunk.pos]
                    ELSE
                      LET bytes_read == Len(Val(d))
                          spliced == Splice(decompressed,
                                            SpliceRange(offset, bytes_read),
                                            Val(d))
                      IN  IF ~IsOk(spliced)
                          THEN [res |-> spliced, pos |-> chunk.pos]
                          ELSE DecompressBlocks(s, chunk.pos, entry, i + 1,
                                                offset + bytes_read,
                                                Val(spliced), checks)

\* where get_pak_entry_data puts the cursor before it reads
PayloadStart(p, entry, checks) ==
  AddU64(entry.offset, entry.header_size, checks)

get_pak_entry_data(s, p, entry, checks) ==
  LET at == PayloadStart(p, entry, checks)
  IN  IF ~IsOk(at) THEN [res |-> at, pos |-> p]
      ELSE IF entry.compression_index = 0
           THEN read_buffer(s, Val(at), entry.size)
      ELSE IF Huge(entry.uncompressed_size)
           THEN [res |-> Panic("capacity overflow"), pos |-> Val(at)]
      ELSE DecompressBlocks(s, Val(at), entry, 1, 0,
                            Repeat(0, entry.uncompressed_size), checks)

\* PakFile::get_entry_data(index): Ok(None) for a name not in the directory
None == <<"None">>
Some(v) == <<"Some", v>>

get_entry_data(s, p, indexes, name, checks) ==
  IF name \in DOMAIN indexes
  THEN LET r == get_pak_entry_data(s, p, indexes[name], checks)
       IN  [res |-> IF IsOk(r.res) THEN Ok(Some(Val(r.res))) ELSE r.res,
            pos |-> r.pos]
  ELSE [res |-> Ok(None), pos |-> p]

---------------------------------------------------------------------------
(* The archives the reader is run on.  They are written field by field in  *)
(* the wire layout the parsers above read, so that every field value is    *)
(* one the parsers must decode back.                                       *)

MaxBlocks == 3      \* compression blocks per entry
MaxTokens == 3      \* path tokens per mount point
MaxUnits  == 2      \* characters per string handed to read_fstring alone

LE32(n) ==
  LET low == n % 16777216
      top == (n - low) \div 16777216
  IN  <<low % 256, (low \div 256) % 256, low \div 65536,
        IF top < 0 THEN top + 256 ELSE top>>

LE64(r) == LE32(r) \o (IF r < 0 THEN <<255, 255, 255, 255>> ELSE <<0, 0, 0, 0>>)

RECURSIVE Flatten(_)
Flatten(ss) == IF ss = <<>> THEN <<>> ELSE Head(ss) \o Flatten(Tail(ss))

\* a string in the narrow encoding: length, characters, terminator
NarrowString(chars) == LE32(Len(chars) + 1) \o chars \o <<0>>

\* a string in the wide encoding: negated length, 2-byte units
WideString(units) ==
  LE32(-Len(units)) \o Flatten([i \in 1..Len(units) |->
                                  <<units[i] % 256, units[i] \div 256>>])

\* a trailer of version_size bytes; rest fills the bytes after the digest
WriteTrailer(version_size, magic_ok, encrypted, version, index_offset,
             index_size, rest) ==
  Repeat(7, 16) \o <<encrypted>>
  \o (IF magic_ok THEN LE32(PAK_MAGIC) ELSE LE32(PAK_MAGIC - 1))
  \o LE32(version) \o LE64(index_offset) \o LE64(index_size)
  \o Repeat(0, 20)
  \o SubSeq(rest \o Repeat(0, version_size), 1, version_size - Size)

\* the method-name block of a version 8 or 9 trailer
NameBlock(version) ==
  (IF version >= FrozenIndex THEN <<1>> ELSE <<>>)
  \o Zlib_name \o <<0, 0>> \o Gzip_name \o <<0>> \o Oodle_name

EmptyIndex == WideString(<<>>) \o LE32(0)

Versions == {-1, 0, 1, 3, 4, 7, 8, 9, 10}

\* Archives of an empty index and one trailer, of any layout and version.
\* inner, when not <<>>, is a second, 61-byte trailer laid over the last
\* bytes of the first: the smallest candidate then sees a trailer of its own.
InnerTrailers ==
  { <<>> } \cup
  { WriteTrailer(Size, TRUE, e, v, 0, 8, <<>>) : e \in {0, 1}, v \in {3, 4, 9} }

ProbeArchives ==
  { EmptyIndex
    \o (LET outer == WriteTrailer(vs, m, e, v, 0, 8, NameBlock(v))
        IN  SubSeq(outer, 1, Len(outer) - Len(inner)) \o inner) :
    vs \in {Size, SizeV8, SizeV8A, SizeV9}, m \in BOOLEAN, e \in {0, 1},
    v \in Versions, inner \in InnerTrailers }

\* Archives shorter than the smallest trailer
ShortArchives ==
  { SubSeq(WriteTrailer(Size, TRUE, 0, 3, 0, 8, <<>>), Size - k + 1, Size) :
      k \in {0, 20, Size - 1} }

\* Archives whose trailer points the index anywhere
IndexArchives ==
  { EmptyIndex \o WriteTrailer(Size, TRUE, 0, 3, off, sz, <<>>) :
      off \in {0, 1, Size, Size + 8, Size + 10, -(Size + 8), -(Size + 9), -8},
      sz \in {8, 4, Size + 8, Size + 9, -1} }

\* Mount points: up to MaxTokens tokens, in either encoding
Tokens == { ParentEscape, <<46, 46, 47, 46, 46, 47, 46, 46>>, <<47>>,
            <<71, 47>> }

RECURSIVE TokenStrings(_)
TokenStrings(n) ==
  IF n = 0 THEN { <<>> }
  ELSE LET shorter == TokenStrings(n - 1)
       IN  shorter \cup { s \o tk : s \in shorter, tk \in Tokens }

MountArchives ==
  { (LET index == enc \o LE32(0)
     IN  index \o WriteTrailer(Size, TRUE, 0, 3, 0, Len(index), <<>>)) :
    enc \in { NarrowString(s) : s \in TokenStrings(MaxTokens) }
            \cup { WideString(s) : s \in TokenStrings(MaxTokens) } }

---------------------------------------------------------------------------
(* Archives with entries.  Each entry owns a region of the body: a copy of *)
(* its record (header_size bytes) followed by its payload; the index and   *)
(* the trailer follow the regions.                                         *)

\* the trailer layouts and versions the entry records are written for
Profiles ==
  { [version |-> 1, sub_version |-> 0, version_size |-> Size],
    [version |-> 3, sub_version |-> 0, version_size |-> Size],
    [version |-> 8, sub_version |-> 0, version_size |-> SizeV8],
    [version |-> 8, sub_version |-> 1, version_size |-> SizeV8A] }

BlockSizeField == 4    \* the nominal block size the entries record

RECURSIVE Sum(_)
Sum(ns) == IF ns = <<>> THEN 0 ELSE Head(ns) + Sum(Tail(ns))

RECURSIVE SeqsOver(_, _)
SeqsOver(S, n) ==
  IF n = 0 THEN { <<>> }
  ELSE LET shorter == SeqsOver(S, n - 1)
       IN  shorter \cup { Append(s, x) : s \in shorter, x \in S }

\* what an entry holds: stored bytes, or blocks that decompress to lens[i]
\* bytes each, laid out one per nominal block (strided) or back to back
StoredShapes ==
  [ci : {0}, lens : { <<>> }, contiguous : {FALSE}, usz : {"exact"},
   adj : {"none", "cross", "beyond", "wrap"}, size : {0, 3, -1}]

CompressedShapes ==
  [ci : {1, 2, 3}, lens : SeqsOver({2, 4}, MaxBlocks), contiguous : BOOLEAN,
   usz : {"exact", "long", "short"}, adj : {"none"}, size : {0}]

Sibling ==
  [ci |-> 0, lens |-> <<>>, contiguous |-> FALSE, usz |-> "exact",
   adj |-> "none", size |-> 3]

StoredPayload == <<11, 22, 33>>

Stream(shape, i) ==
  (IF shape.ci = 2 THEN <<>> ELSE <<ZlibHeader>>) \o <<shape.lens[i], 64 + i>>

Payload(shape) ==
  IF shape.ci = 0 THEN StoredPayload
  ELSE Flatten([i \in 1..Len(shape.lens) |->
                  IF shape.contiguous THEN Stream(shape, i)
                  ELSE SubSeq(Stream(shape, i) \o Repeat(0, BlockSizeField),
                              1, BlockSizeField)])
       \o Repeat(0, BlockSizeField)

\* an entry record in the layout of profile prof
WriteRecord(prof, e) ==
  LE64(e.offset) \o LE64(e.size) \o LE64(e.uncompressed_size)
  \o (IF prof.version >= FNameBasedCompressionMethod
      THEN (IF prof.sub_version = 1 THEN <<e.ci>> ELSE LE32(e.ci))
      ELSE LE32(IF e.ci = 3 THEN 4 ELSE e.ci))
  \o (IF prof.version < NoTimestamps THEN LE64(0) ELSE <<>>)
  \o Repeat(0, 20)
  \o (IF prof.version >= CompressionEncryption
      THEN (IF e.ci # 0
            THEN LE32(Len(e.blocks))
                 \o Flatten([i \in 1..Len(e.blocks) |->
                               LE64(e.blocks[i][1]) \o LE64(e.blocks[i][2])])
            ELSE <<>>)
           \o <<0>> \o LE32(e.cbs)
      ELSE <<>>)

\* the record of an entry of this shape whose region starts at region, in an
\* archive of archive_len bytes
RecordOf(prof, shape, region, archive_len) ==
  LET blank == [offset |-> 0, size |-> 0, uncompressed_size |-> 0,
                ci |-> shape.ci, cbs |-> 0,
                blocks |-> [i \in 1..Len(shape.lens) |-> <<0, 0>>]]
      header_size == Len(WriteRecord(prof, blank))
      csize  == IF shape.ci = 2 THEN 2 ELSE 3
      stride == IF shape.contiguous THEN csize ELSE BlockSizeField
  IN  [offset |-> CASE shape.adj = "none"   -> region
                    [] shape.adj = "cross"  -> archive_len - header_size - 1
                    [] shape.adj = "beyond" -> archive_len - header_size + 2
                    [] shape.adj = "wrap"   -> -header_size,
       size   |-> IF shape.ci = 0 THEN shape.size ELSE Len(Payload(shape)),
       uncompressed_size |->
         CASE shape.ci = 0        -> shape.size
           [] shape.usz = "exact" -> Sum(shape.lens)
           [] shape.usz = "long"  -> Sum(shape.lens) + 2
           [] shape.usz = "short" -> 2,
       ci     |-> shape.ci,
       cbs    |-> BlockSizeField,
       blocks |-> [i \in 1..Len(shape.lens) |->
                     <<region + header_size + stride * (i - 1),
                       region + header_size + stride * (i - 1) + csize>>]]

RegionLen(prof, shape) ==
  Len(WriteRecord(prof, RecordOf(prof, shape, 0, 0))) + Len(Payload(shape))

RECURSIVE Body(_, _)
Body(prof, shapes) ==
  IF shapes = <<>> THEN <<>>
  ELSE Repeat(0, RegionLen(prof, Head(shapes)) - Len(Payload(Head(shapes))))
       \o Payload(Head(shapes)) \o Body(prof, Tail(shapes))

\* the (name, record) pairs of the index; entry k is named by the letter k
RECURSIVE Records(_, _, _, _, _)
Records(prof, shapes, k, region, archive_len) ==
  IF k > Len(shapes) THEN <<>>
  ELSE NarrowString(<<96 + k>>)
       \o WriteRecord(prof, RecordOf(prof, shapes[k], region, archive_len))
       \o Records(prof, shapes, k + 1, region + RegionLen(prof, shapes[k]),
                  archive_len)

IndexOf(prof, shapes, archive_len) ==
  NarrowString(<<71, 47>>) \o LE32(Len(shapes))
  \o Records(prof, shapes, 1, 0, archive_len)

Archive(prof, shapes) ==
  LET body == Body(prof, shapes)
      archive_len == Len(body) + Len(IndexOf(prof, shapes, 0))
                     + prof.version_size
      index == IndexOf(prof, shapes, archive_len)
  IN  body \o index
      \o WriteTrailer(prof.version_size, TRUE, 0, prof.version, Len(body),
                      Len(index), NameBlock(prof.version))

EntryArchives ==
  { Archive(prof, <<Sibling, shape>>) :
      prof \in Profiles, shape \in StoredShapes \cup CompressedShapes }
  \cup
  { Archive(prof, <<Sibling, z, g, c>>) :
      prof \in Profiles,
      z \in { s \in CompressedShapes : s.ci = 1 /\ s.lens = <<4>>
                                       /\ s.usz = "exact" /\ ~s.contiguous },
      g \in { s \in CompressedShapes : s.ci = 2 /\ s.lens = <<4>>
                                       /\ s.usz = "exact" /\ ~s.contiguous },
      c \in { s \in CompressedShapes : s.ci = 3 /\ Len(s.lens) <= 1
                                       /\ s.usz = "exact" /\ ~s.contiguous } }

Archives ==
  ProbeArchives \cup ShortArchives \cup IndexArchives \cup MountArchives
  \cup EntryArchives

---------------------------------------------------------------------------
(* PakFile::from_memory, call by call, and PakFile::get_entry_data.        *)

NoCall == [called |-> FALSE, name |-> <<>>, from |-> 0, to |-> 0,
           res |-> Pending]

Init ==
  /\ buffer \in Archives
  /\ position = 0
  /\ overflow_checks \in BOOLEAN
  /\ pc = "get_pak_info"
  /\ sizeIdx = 1
  /\ pak_info = Pending
  /\ index_buf = Pending
  /\ opened = Pending
  /\ mount_point = <<>>
  /\ file_indexes = <<>>
  /\ fetched = NoCall
  /\ fstr = NoCall

\* one turn of get_pak_info's loop over the candidate sizes
ProbeCandidate ==
  /\ pc = "get_pak_info"
  /\ LET r == read_pak_info(buffer, position, get_sizes[sizeIdx])
     IN  /\ position' = r.pos
         /\ IF IsOk(r.res)
            THEN /\ pak_info' = r.res
                 /\ pc' = "read_pak_index"
                 /\ UNCHANGED <<sizeIdx, opened>>
            ELSE IF sizeIdx < Len(get_sizes)
            THEN /\ sizeIdx' = sizeIdx + 1
                 /\ UNCHANGED <<pak_info, pc, opened>>
            ELSE /\ pak_info' = Err("UnknownVersion")
                 /\ opened' = Err("UnknownVersion")
                 /\ pc' = "failed"
                 /\ UNCHANGED sizeIdx
  /\ UNCHANGED <<buffer, overflow_checks, index_buf, mount_point, file_indexes,
                 fetched, fstr>>

\* get_pak_entries, first statement: read_pak_index
ReadPakIndex ==
  /\ pc = "read_pak_index"
  /\ LET r == read_pak_index(buffer, position, Val(pak_info))
     IN  /\ position' = r.pos
         /\ index_buf' = r.res
         /\ IF IsOk(r.res)
            THEN pc' = "decode_index" /\ UNCHANGED opened
            ELSE pc' = "failed" /\ opened' = r.res
  /\ UNCHANGED <<buffer, overflow_checks, sizeIdx, pak_info, mount_point,
                 file_indexes, fetched, fstr>>

\* get_pak_entries, the rest, and from_memory's return
DecodeIndex ==
  /\ pc = "decode_index"
  /\ LET d == decode_index(Val(index_buf), Val(pak_info), overflow_checks)
     IN  IF IsOk(d)
         THEN /\ mount_point' = Val(d).mount_point
              /\ file_indexes' = Val(d).entries
              /\ opened' = Ok(<<>>)
              /\ pc' = "ready"
         ELSE /\ opened' = d
              /\ pc' = "failed"
              /\ UNCHANGED <<mount_point, file_indexes>>
  /\ UNCHANGED <<buffer, position, overflow_checks, sizeIdx, pak_info, index_buf,
                 fetched, fstr>>

AbsentName == <<122>>

GetEntryData(name) ==
  /\ pc = "ready"
  /\ LET r == get_entry_data(buffer, position, file_indexes, name,
                             overflow_checks)
     IN  /\ position' = r.pos
         /\ fetched' = [called |-> TRUE, name |-> name, from |-> position,
                        to |-> r.pos, res |-> r.res]
  /\ UNCHANGED <<buffer, overflow_checks, pc, sizeIdx, pak_info, index_buf,
                 opened, mount_point, file_indexes, fstr>>

Next ==
  \/ ProbeCandidate
  \/ ReadPakIndex
  \/ DecodeIndex
  \/ \E name \in DOMAIN file_indexes \cup {AbsentName} : GetEntryData(name)

Spec == Init /\ [][Next]_vars

---------------------------------------------------------------------------
(* CursorExt::read_fstring on its own: a cursor over a few bytes, read     *)
(* string after string until a read fails or the bytes are used up.        *)

StringBytes == {0, 1, 65}

LengthFields ==
  { LE32(n) : n \in (-(MaxUnits + 1))..(MaxUnits + 2) } \cup { LE32(MinI32) }

StringInputs ==
  { len \o data : len \in LengthFields,
                  data \in SeqsOver(StringBytes, 2 * MaxUnits + 1) }
  \cup { <<>>, <<1, 0>>, <<0, 0, 0>> }

InitFString ==
  /\ buffer \in StringInputs
  /\ position = 0
  /\ overflow_checks \in BOOLEAN
  /\ pc = "read_fstring"
  /\ sizeIdx = 1
  /\ pak_info = Pending
  /\ index_buf = Pending
  /\ opened = Pending
  /\ mount_point = <<>>
  /\ file_indexes = <<>>
  /\ fetched = NoCall
  /\ fstr = NoCall

ReadFString ==
  /\ pc = "read_fstring"
  /\ LET r == read_fstring(buffer, position, overflow_checks)
     IN  /\ position' = r.pos
         /\ fstr' = [called |-> TRUE, name |-> <<>>, from |-> position,
                     to |-> r.pos, res |-> r.res]
         /\ pc' = IF IsOk(r.res) /\ r.pos < Len(buffer) THEN "read_fstring"
                  ELSE "done"
  /\ UNCHANGED <<buffer, overflow_checks, sizeIdx, pak_info, index_buf, opened,
                 mount_point, file_indexes, fetched>>

NextFString == ReadFString

SpecFString == InitFString /\ [][NextFString]_vars

---------------------------------------------------------------------------
(* Properties.                                                             *)

\* the footer parse of the candidate of this size, on the archive as it is
Footer(size) == ParseHeader(Slice(buffer, Len(buffer) - size, size), size)

Succeeds(size) == Len(buffer) >= size /\ IsOk(Footer(size))

\* the candidates, by position in ascending order, whose footer parse succeeds
Successful == { i \in 1..4 : Succeeds(<<61, 189, 221, 222>>[i]) }

\* the entry the last get_entry_data call named
FetchedEntry == file_indexes[fetched.name]
FetchedKnown == fetched.called /\ fetched.name \in DOMAIN file_indexes
FetchedBytes == Val(fetched.res)[2]

\* C1: an archive whose trailer, at the one candidate size where the magic
\* matches, has the encrypted flag set and a version of 4 or more fails to
\* open with EncryptionNotSupported, and with nothing else.
EncryptedTrailer(size) ==
  /\ Len(buffer) >= size
  /\ LET header == Slice(buffer, Len(buffer) - size, size)
     IN  /\ U32At(header, 17) = PAK_MAGIC
         /\ header[17] > 0
         /\ I32At(header, 21) >= IndexEncryption

MagicMatches(size) ==
  /\ Len(buffer) >= size
  /\ U32At(buffer, Len(buffer) - size + 17) = PAK_MAGIC

C1_EncryptedFailsOpen ==
  (/\ opened # Pending
   /\ \E size \in {61, 189, 221, 222} :
        /\ EncryptedTrailer(size)
        /\ \A other \in {61, 189, 221, 222} \ {size} : ~MagicMatches(other))
    => opened = Err("EncryptionNotSupported")

\* the decompression of each block's recorded byte range of the archive
BlockRange(block) ==
  Slice(buffer, block.compression_start, get_size(block))

BlockInArchive(block) ==
  /\ 0 <= block.compression_start
  /\ block.compression_start <= block.compression_end
  /\ block.compression_end <= Len(buffer)

DecodedBlocks(e) ==
  [i \in 1..Len(e.compression_blocks) |->
     Decode(BlockRange(e.compression_blocks[i]),
            IF e.compression_index = 2 THEN "GZip" ELSE "Zlib")]

\* an entry as an archive writer records it: every block is a range of the
\* archive that decompresses, and uncompressed_size is the sum of what the
\* blocks decompress to
Consistent(e) ==
  /\ \A i \in 1..Len(e.compression_blocks) :
        /\ BlockInArchive(e.compression_blocks[i])
        /\ IsOk(DecodedBlocks(e)[i])
  /\ e.uncompressed_size =
       Sum([i \in 1..Len(e.compression_blocks) |->
              Len(Val(DecodedBlocks(e)[i]))])

\* C2: whenever get_pak_entry_data returns a buffer for an entry whose
\* compression index is not 0, the buffer is uncompressed_size bytes long.
\* Stated for the entries a writer records (Consistent), which the claim
\* covers and where it fails already.
C2_CompressedLength ==
  (/\ FetchedKnown /\ IsOk(fetched.res)
   /\ FetchedEntry.compression_index # 0
   /\ Consistent(FetchedEntry))
    => Len(FetchedBytes) = FetchedEntry.uncompressed_size

\* C3: fetching an entry of compression index 3 returns an unsupported-codec
\* error to the caller: an Err of get_entry_data, not a panic and not data.
\* Stated for the entries that have a block to decompress.
C3_CustomCodecIsAnError ==
  (/\ FetchedKnown
   /\ FetchedEntry.compression_index = 3
   /\ Len(FetchedEntry.compression_blocks) > 0)
    => fetched.res = Err("UnsupportedCodec")

\* C4: get_pak_info tries 61, 189, 221, 222 in this order: while it runs,
\* every candidate tried so far has failed; when it returns, it returns the
\* footer parse of the smallest candidate that succeeds, and UnknownVersion
\* when none does (a candidate longer than the archive being one that fails).
C4_FirstCandidateWins ==
  /\ pc = "get_pak_info" => \A i \in 1..(sizeIdx - 1) : i \notin Successful
  /\ (pak_info # Pending /\ pc \in {"read_pak_index", "failed"}) =>
       IF Successful = {} THEN pak_info = Err("UnknownVersion")
       ELSE LET first == CHOOSE i \in Successful :
                           \A j \in Successful : i <= j
            IN  pak_info = Footer(<<61, 189, 221, 222>>[first])

\* reached: get_pak_info has returned on an archive where more than one
\* candidate size parses, so that the order of the attempts decides
C4_Witness ==
  pc = "read_pak_index" /\ IsOk(pak_info) /\ Cardinality(Successful) >= 2

\* C5: fetching a stored entry returns exactly the size bytes of the archive
\* from offset + header_size on, wherever the cursor was, and an I/O error
\* when that range (of at least one byte) runs past the end of the archive.
C5_StoredRoundTrip ==
  (FetchedKnown /\ FetchedEntry.compression_index = 0) =>
    LET e == FetchedEntry
        in_archive == /\ ~Huge(e.offset) /\ ~Huge(e.size)
                      /\ e.offset + e.header_size + e.size <= Len(buffer)
    IN  /\ in_archive =>
              fetched.res = Ok(Some(Slice(buffer, e.offset + e.header_size,
                                          e.size)))
        /\ (~in_archive /\ e.size # 0) => fetched.res = Err("ReadError")

\* C6: the mount point of an opened archive contains no "../../../".
C6_NoParentEscape ==
  opened = Ok(<<>>) =>
    \A i \in 1..Len(mount_point) : ~StartsWith(mount_point, i, ParentEscape)

\* C8: the PakInfo get_pak_info returns has the magic 0x5A6F12E1 and a
\* version in 1..9.
C8_VersionInRange ==
  IsOk(pak_info) =>
    /\ Val(pak_info).magic = 1517228769
    /\ Val(pak_info).version \in 1..9

\* C9: the buffer returned for an entry compressed with zlib or gzip is the
\* concatenation, in block order, of the decompression of each block's
\* recorded byte range of the archive.  Stated for the entries a writer
\* records (Consistent) that have two blocks or more.
C9_BlocksConcatenated ==
  (/\ FetchedKnown /\ IsOk(fetched.res)
   /\ FetchedEntry.compression_index \in {1, 2}
   /\ Len(FetchedEntry.compression_blocks) >= 2
   /\ Consistent(FetchedEntry))
    => FetchedBytes =
         Flatten([i \in 1..Len(FetchedEntry.compression_blocks) |->
                    Val(DecodedBlocks(FetchedEntry)[i])])

\* C10 as stated: the cursor is at 0 after every probe attempt, when
\* read_pak_index has returned, and when get_pak_info or get_pak_entries
\* has returned (with a value or with an error).
EntriesReturned ==
  /\ IsOk(pak_info)
  /\ pc \in {"ready", "failed"}
  /\ opened.tag \in {"Ok", "Err"}
  /\ ~fetched.called

C7_StringDecoded ==
  fstr.called =>
    LET p == fstr.from
        avail == Len(buffer) - p
        L == I32At(buffer, p)
    IN  IF avail < 4 THEN fstr.res = Err("ReadError")
        ELSE IF L > 0
        THEN (IF avail >= 4 + L
              THEN /\ fstr.res = Ok(Slice(buffer, p + 4, L - 1))
                   /\ fstr.to = p + 4 + L
              ELSE fstr.res = Err("ReadError"))
        ELSE IF L = MinI32 THEN fstr.res = Err("ReadError")
        ELSE (IF avail >= 4 - 2 * L
              THEN /\ fstr.res =
                        Ok([i \in 1..(-L) |->
                              IF buffer[p + 4 + 2 * i] # 0 THEN 36
                              ELSE buffer[p + 4 + 2 * i - 1]])
                   /\ fstr.to = p + 4 - 2 * L
              ELSE fstr.res = Err("ReadError"))

====
